---- MODULE Spec2Model ----
\* A model of api-design/scripts/generate_openapi.py: the OpenAPIGenerator class
\* (taxonomy loading, document assembly, per-entity schema and path generation,
\* the lookup tables) and main() (the command-line run and its file system effects).
\*
\* Representation.
\*   - A Python dict (and a JSON object) is an ordered mapping: a sequence of
\*     <<key, value>> pairs in insertion order, no key twice.  d[k] = v on an
\*     existing key replaces the value and keeps the key's position, as CPython does.
\*   - A Python str is a TLA+ string; an f-string is the tuple of its pieces, so
\*     f"/{schema_name}s" is <<"/", schema_name, "s">>.
\*   - A scalar whose Python type varies under one key (the 'example' values) is a
\*     pair <<python type, literal>>.
EXTENDS Integers, Sequences, FiniteSets, TLC

VARIABLES
    taxonomyFile,   \* the --taxonomy argument and the file it names
    modelFile,      \* the file --model names
    pc,             \* position of the process in main()
    taxonomy,       \* self.taxonomy
    spec,           \* the document returned by generate_from_model
    outDir,         \* TRUE when the parent directory of --output exists
    outFile,        \* the output file: <<>> when it does not exist, else <<content>>
    exitCode,       \* -1 while running, 0 or 1 once the process has ended
    run,            \* which run of the command line this is
    prevFile,       \* the output file as the previous run left it
    entity,         \* argument of a direct call of _generate_entity_schema
    schema          \* result of that call

vars == <<taxonomyFile, modelFile, pc, taxonomy, spec, outDir, outFile, exitCode,
          run, prevFile, entity, schema>>

\* ---------------------------------------------------------------- bounds

MaxEntities == 2
MaxAttrs == 2

\* ------------------------------------------------------- ordered mappings

Range(s) == { s[i] : i \in 1..Len(s) }

NoDup(s) == \A i, j \in 1..Len(s) : s[i] = s[j] => i = j

SeqsUpTo(S, n) == UNION { [1..k -> S] : k \in 0..n }

\* k in d
Has(d, k) == \E i \in 1..Len(d) : d[i][1] = k

\* d[k], for a key that is in d
Get(d, k) == d[CHOOSE i \in 1..Len(d) : d[i][1] = k][2]

\* d.get(k, default)
GetOr(d, k, default) == IF Has(d, k) THEN Get(d, k) ELSE default

\* d[k] = v
Put(d, k, v) ==
    IF Has(d, k)
    THEN [i \in 1..Len(d) |-> IF d[i][1] = k THEN <<k, v>> ELSE d[i]]
    ELSE Append(d, <<k, v>>)

\* d.update(other)
RECURSIVE Update(_, _)
Update(d, other) ==
    IF other = <<>> THEN d
    ELSE Update(Put(d, Head(other)[1], Head(other)[2]), Tail(other))

\* list(d.keys())
Keys(d) == [i \in 1..Len(d) |-> d[i][1]]

\* ----------------------------------------------------------- lookup tables

\* the keys of type_mapping, in the order of the literal
KnownTypes ==
    <<"uuid", "email", "phone", "currency", "datetime", "date", "enum", "boolean",
      "integer", "float", "string">>

\* type_mapping
type_mapping ==
    << <<"uuid",     << <<"type", "string">>,  <<"format", "uuid">> >> >>,
       <<"email",    << <<"type", "string">>,  <<"format", "email">> >> >>,
       <<"phone",    << <<"type", "string">>,  <<"format", "phone">> >> >>,
       <<"currency", << <<"type", "number">>,  <<"format", "decimal">> >> >>,
       <<"datetime", << <<"type", "string">>,  <<"format", "date-time">> >> >>,
       <<"date",     << <<"type", "string">>,  <<"format", "date">> >> >>,
       <<"enum",     << <<"type", "string">> >> >>,
       <<"boolean",  << <<"type", "boolean">> >> >>,
       <<"integer",  << <<"type", "integer">> >> >>,
       <<"float",    << <<"type", "number">>,  <<"format", "float">> >> >>,
       <<"string",   << <<"type", "string">> >> >> >>

\* mutant: a type that is not in the table is passed through as the output type
MapDataType_PassThrough(data_type) ==
    GetOr(type_mapping, data_type, << <<"type", data_type>> >>)

\* _map_data_type
MapDataType(data_type) == GetOr(type_mapping, data_type, << <<"type", "string">> >>)

\* examples ('enum' has no entry)
examples ==
    << <<"uuid",     <<"str", "123e4567-e89b-12d3-a456-426614174000">> >>,
       <<"email",    <<"str", "user@example.com">> >>,
       <<"phone",    <<"str", "+1-555-123-4567">> >>,
       <<"currency", <<"float", "99.99">> >>,
       <<"datetime", <<"str", "2023-11-23T10:30:00Z">> >>,
       <<"date",     <<"str", "2023-11-23">> >>,
       <<"boolean",  <<"bool", "True">> >>,
       <<"integer",  <<"int", "42">> >>,
       <<"float",    <<"float", "3.14">> >>,
       <<"string",   <<"str", "example value">> >> >>

\* _generate_example_value
GenerateExampleValue(data_type) == GetOr(examples, data_type, <<"str", "example">>)

\* ------------------------------------------------- _generate_entity_schema

\* lines 99-108: the property of one attribute, before the constraints
BaseProperty(attr) ==
    LET openapi_type == MapDataType(Get(attr, "type"))
        p == << <<"type", Get(openapi_type, "type")>>,
                <<"description", GetOr(attr, "description", "")>>,
                <<"example", GenerateExampleValue(Get(attr, "type"))>> >>
    IN  IF Has(openapi_type, "format")
        THEN Put(p, "format", Get(openapi_type, "format"))
        ELSE p

\* line 111: if attr.get('max_length'): None (absent) and 0 are falsy
MaxLengthTest(attr) == Has(attr, "max_length") /\ Get(attr, "max_length") # 0

\* lines 99-112: the property of one attribute
AttrProperty(attr) ==
    IF MaxLengthTest(attr)
    THEN Put(BaseProperty(attr), "maxLength", Get(attr, "max_length"))
    ELSE BaseProperty(attr)

\* mutant: the presence of the field is tested, not its value
RequiredTest_Presence(attr) == Has(attr, "required")

\* line 114: if attr.get('required', False)
RequiredTest(attr) == GetOr(attr, "required", FALSE)

\* mutant: a name that is there is deleted and inserted again, at the end
SetProperty_MoveToEnd(properties, attr_name, property) ==
    Append(SelectSeq(properties, LAMBDA kv : kv[1] # attr_name), <<attr_name, property>>)

\* line 100: schema['properties'][attr_name] = {...}
SetProperty(properties, attr_name, property) == Put(properties, attr_name, property)

\* lines 94-115: one iteration of the loop over the attributes
SchemaStep(sch, attr) ==
    LET props == SetProperty(Get(sch, "properties"), Get(attr, "name"),
                             AttrProperty(attr))
        s1 == Put(sch, "properties", props)
    IN  IF RequiredTest(attr)
        THEN Put(s1, "required", Append(Get(s1, "required"), Get(attr, "name")))
        ELSE s1

RECURSIVE SchemaLoop(_, _)
SchemaLoop(sch, attrs) ==
    IF attrs = <<>> THEN sch
    ELSE SchemaLoop(SchemaStep(sch, Head(attrs)), Tail(attrs))

\* _generate_entity_schema
GenerateEntitySchema(ent) ==
    LET sch == SchemaLoop(<< <<"type", "object">>, <<"properties", <<>> >>,
                             <<"required", <<>> >> >>,
                          GetOr(ent, "attributes", <<>>))
    IN  IF Has(ent, "taxonomy_classification")
        THEN Put(sch, "x-taxonomy", Get(ent, "taxonomy_classification"))
        ELSE sch

\* -------------------------------------------------- _generate_entity_paths

\* line 125: base_path = f"/{schema_name}s"
BasePath(schema_name) == <<"/", schema_name, "s">>

\* line 126: entity_path = f"{base_path}/{{{schema_name}Id}}"
EntityPath(schema_name) == BasePath(schema_name) \o <<"/{", schema_name, "Id}">>

JsonContent(sch) ==
    << <<"content", << <<"application/json", << <<"schema", sch>> >> >> >> >> >>

Ref(pieces) == << <<"$ref", pieces>> >>

\* lines 129-174: the collection path item
BaseItem(entity_name) ==
    << <<"get",
         << <<"summary", <<"List ", entity_name, "s">> >>,
            <<"operationId", <<"list", entity_name, "s">> >>,
            <<"responses",
              << <<"200",
                   << <<"description", <<"Successful response">> >> >> \o
                   JsonContent(
                     << <<"type", "object">>,
                        <<"properties",
                          << <<"data",
                               << <<"type", "array">>,
                                  <<"items",
                                    Ref(<<"#/components/schemas/", entity_name>>)>>
                               >> >> >> >> >>) >> >> >> >> >>,
       <<"post",
         << <<"summary", <<"Create ", entity_name>> >>,
            <<"operationId", <<"create", entity_name>> >>,
            <<"requestBody",
              << <<"required", TRUE>> >> \o
              JsonContent(Ref(<<"#/components/schemas/Create", entity_name,
                                "Request">>)) >>,
            <<"responses",
              << <<"201",
                   << <<"description", <<entity_name, " created successfully">> >> >>
                   \o JsonContent(Ref(<<"#/components/schemas/", entity_name,
                                        "Response">>)) >> >> >> >> >> >>

\* lines 175-198: the item path item
EntityItem(entity_name, schema_name) ==
    << <<"get",
         << <<"summary", <<"Get ", entity_name>> >>,
            <<"operationId", <<"get", entity_name>> >>,
            <<"parameters",
              << << <<"name", <<schema_name, "Id">> >>,
                    <<"in", "path">>,
                    <<"required", TRUE>>,
                    <<"schema", << <<"type", "string">>, <<"format", "uuid">> >> >>
                 >> >> >>,
            <<"responses",
              << <<"200",
                   << <<"description", <<"Successful response">> >> >> \o
                   JsonContent(Ref(<<"#/components/schemas/", entity_name,
                                     "Response">>)) >> >> >> >> >> >>

\* mutant: the item path is left out of the returned mapping
GenerateEntityPaths_CollectionOnly(entity_name, schema_name) ==
    << <<BasePath(schema_name), BaseItem(entity_name)>> >>

\* _generate_entity_paths
GenerateEntityPaths(entity_name, schema_name) ==
    << <<BasePath(schema_name), BaseItem(entity_name)>>,
       <<EntityPath(schema_name), EntityItem(entity_name, schema_name)>> >>

\* ------------------------------------------- _generate_standard_responses

ErrorResponse(description) ==
    << <<"description", description>> >> \o
    JsonContent(Ref(<<"#/components/schemas/Error">>))

GenerateStandardResponses ==
    << <<"BadRequest", ErrorResponse("Bad request")>>,
       <<"Unauthorized", ErrorResponse("Authentication required")>>,
       <<"Forbidden", ErrorResponse("Access denied")>>,
       <<"NotFound", ErrorResponse("Resource not found")>> >>

\* ------------------------------------------------------ string functions

\* str.lower(), on the entity names of the model
Lower(name) ==
    CASE name = "User" -> "user"
      [] name = "Order" -> "order"
      [] OTHER -> name

\* str.replace('_', ' ').title(), on the domains of the model
TitleOf(domain) ==
    CASE domain = "user_account" -> "User Account"
      [] domain = "API" -> "Api"
      [] OTHER -> domain

\* ------------------------------------- _extract_compliance_requirements

\* lines 277-280: the set the loop builds
RECURSIVE ComplianceSet(_)
ComplianceSet(entities) ==
    IF entities = <<>> THEN {}
    ELSE LET e == Head(entities)
         IN  (IF Has(e, "taxonomy_classification")
              THEN Range(GetOr(Get(e, "taxonomy_classification"), "compliance", <<>>))
              ELSE {})
             \cup ComplianceSet(Tail(entities))

\* line 282: list(compliance).  A set of str iterates in the order of the strings'
\* hashes, which CPython salts per process (PYTHONHASHSEED): hashOrder, a
\* permutation of the strings, stands for the order this process's salt induces.
ListOfSet(S, hashOrder) == SelectSeq(hashOrder, LAMBDA x : x \in S)

\* mutant: the lists are concatenated, not collected in a set
RECURSIVE ExtractComplianceRequirements_Concat(_, _)
ExtractComplianceRequirements_Concat(entities, hashOrder) ==
    IF entities = <<>> THEN <<>>
    ELSE (IF Has(Head(entities), "taxonomy_classification")
          THEN GetOr(Get(Head(entities), "taxonomy_classification"), "compliance", <<>>)
          ELSE <<>>)
         \o ExtractComplianceRequirements_Concat(Tail(entities), hashOrder)

\* _extract_compliance_requirements
ExtractComplianceRequirements(entities, hashOrder) ==
    ListOfSet(ComplianceSet(entities), hashOrder)

\* ---------------------------------------------------- generate_from_model

\* mutant: setdefault, which keeps the schema of a name that is there
SetSchema_KeepFirst(schemas, entity_name, sch) ==
    IF Has(schemas, entity_name) THEN schemas ELSE Put(schemas, entity_name, sch)

\* line 70: openapi_spec['components']['schemas'][entity_name] = ...
SetSchema(schemas, entity_name, sch) == Put(schemas, entity_name, sch)

\* lines 66-74: one iteration of the loop over the entities
EntityStep(doc, ent) ==
    LET entity_name == Get(ent, "name")
        schema_name == Lower(entity_name)
        components == Get(doc, "components")
        schemas == SetSchema(Get(components, "schemas"), entity_name,
                             GenerateEntitySchema(ent))
        d1 == Put(doc, "components", Put(components, "schemas", schemas))
    IN  Put(d1, "paths",
            Update(Get(d1, "paths"), GenerateEntityPaths(entity_name, schema_name)))

RECURSIVE EntitiesLoop(_, _)
EntitiesLoop(doc, entities) ==
    IF entities = <<>> THEN doc
    ELSE EntitiesLoop(EntityStep(doc, Head(entities)), Tail(entities))

\* lines 40-62: the document before the loop
InitialDocument(model_info) ==
    << <<"openapi", "3.0.3">>,
       <<"info",
         << <<"title", <<TitleOf(GetOr(model_info, "domain", "API")), " API">> >>,
            <<"version", GetOr(model_info, "version", "1.0.0")>>,
            <<"description", GetOr(model_info, "description", "")>>,
            <<"contact", << <<"name", "API Development Team">>,
                            <<"email", "api@empathyfirstmedia.com">> >> >> >> >>,
       <<"servers", << << <<"url", "https://api.empathyfirstmedia.com/v1">>,
                          <<"description", "Production server">> >> >> >>,
       <<"paths", <<>> >>,
       <<"components", << <<"schemas", <<>> >>,
                          <<"responses", GenerateStandardResponses>> >> >> >>

\* mutant: the test is on the mapping being there, not on its being non-empty
TaxonomyTest_Always(tax) == TRUE

\* line 77: if self.taxonomy (an empty dict is falsy)
TaxonomyTest(tax) == tax # <<>>

\* lines 36-84 of generate_from_model, on the parsed model
GenerateDocument(model, tax, hashOrder) ==
    LET model_info == GetOr(model, "model", <<>>)
        entities == GetOr(model, "entities", <<>>)
        doc == EntitiesLoop(InitialDocument(model_info), entities)
    IN  IF TaxonomyTest(tax)
        THEN Put(doc, "x-taxonomy",
                 << <<"domain", GetOr(model_info, "domain", "None")>>,
                    <<"version", GetOr(model_info, "version", "None")>>,
                    <<"compliance",
                      ExtractComplianceRequirements(entities, hashOrder)>> >>)
        ELSE doc

\* ------------------------------------------------------------------ inputs

\* attribute types: the eleven of the table and two that are not in it
AttrTypes == Range(KnownTypes) \cup {"object", "UUID"}

AttrNames == {"id", "email"}

RequiredOpts == { <<>>, << <<"required", TRUE>> >>, << <<"required", FALSE>> >> }

MaxLengthOpts == { <<>>, << <<"max_length", 0>> >>, << <<"max_length", 5>> >> }

Attr(name, type, required, max_length) ==
    << <<"name", name>>, <<"type", type>> >> \o required \o max_length

\* every type under one name, and every combination of the optional fields under
\* every name
Attrs ==
    { Attr("id", t, <<>>, <<>>) : t \in AttrTypes } \cup
    { Attr(n, "string", r, m) : n \in AttrNames, r \in RequiredOpts, m \in MaxLengthOpts }

AttrLists == SeqsUpTo(Attrs, MaxAttrs)

\* the entities _generate_entity_schema is called on directly
SchemaEntities ==
    { << <<"name", "User">> >> \o a \o t :
        a \in { <<>> } \cup { << <<"attributes", l>> >> : l \in AttrLists },
        t \in { <<>>, << <<"taxonomy_classification", << <<"sensitivity", "high">> >> >> >> } }

EntityNames == {"User", "user", "Order"}

\* the attribute lists and classifications of the entities of a model file
EntityBodies ==
    { << <<"attributes", <<Attr("id", "uuid", << <<"required", TRUE>> >>, <<>>)>> >> >>,
      << <<"attributes", <<Attr("email", "email", <<>>, <<>>),
                           Attr("id", "uuid", << <<"required", TRUE>> >>, <<>>)>> >>,
         <<"taxonomy_classification", << <<"compliance", <<"GDPR">> >> >> >> >>,
      << <<"taxonomy_classification",
           << <<"sensitivity", "high">>, <<"compliance", <<"HIPAA", "GDPR">> >> >> >> >>,
      << <<"attributes", <<Attr("id", "uuid", << <<"required", TRUE>> >>, <<>>),
                           Attr("email", "email", <<>>, <<>>),
                           Attr("id", "string", <<>>, << <<"max_length", 5>> >>)>> >>,
         <<"taxonomy_classification", << <<"sensitivity", "high">> >> >> >> }

Entities == { << <<"name", n>> >> \o b : n \in EntityNames, b \in EntityBodies }

Models ==
    { << <<"model", << <<"domain", "user_account">>, <<"version", "2.0.0">> >> >>,
         <<"entities", es>> >> : es \in SeqsUpTo(Entities, MaxEntities) }

\* the file --model names: absent, not JSON, or JSON
ModelFiles == { <<"missing">>, <<"malformed">> } \cup { <<"json", m>> : m \in Models }

\* --taxonomy: not given, or naming a file that is absent, not JSON, or JSON
TaxonomyFiles ==
    { <<"noarg">>, <<"missing">>, <<"malformed">>, <<"json", <<>> >>,
      <<"json", << <<"domains", <<"crm", "billing">> >> >> >> }

ComplianceNames == {"GDPR", "HIPAA"}

\* the iteration orders a process's hash salt can induce
HashOrders ==
    { o \in [1..Cardinality(ComplianceNames) -> ComplianceNames] : NoDup(o) }

\* ----------------------------------------------------------------- main()

Idle ==
    /\ pc = "start"
    /\ taxonomy = <<>>
    /\ spec = <<>>
    /\ outDir = FALSE
    /\ outFile = <<>>
    /\ exitCode = -1
    /\ run = "first"
    /\ prevFile = <<>>

Init ==
    /\ taxonomyFile \in TaxonomyFiles
    /\ modelFile \in ModelFiles
    /\ Idle
    /\ entity = <<>>
    /\ schema = <<>>

\* mutant: the exception is caught and the run goes on to write the output
Raise_Swallowed ==
    /\ pc' = "generated"
    /\ exitCode' = exitCode

\* an unhandled exception: the interpreter prints the traceback and exits with 1
Raise ==
    /\ pc' = "failed"
    /\ exitCode' = 1

\* line 294, lines 22-26: OpenAPIGenerator(args.taxonomy)
Construct ==
    /\ pc = "start"
    /\ IF taxonomyFile[1] = "malformed"
       THEN Raise /\ UNCHANGED taxonomy
       ELSE /\ taxonomy' = IF taxonomyFile[1] = "json" THEN taxonomyFile[2] ELSE <<>>
            /\ pc' = "constructed"
            /\ UNCHANGED exitCode
    /\ UNCHANGED <<taxonomyFile, modelFile, spec, outDir, outFile, run, prevFile,
                   entity, schema>>

\* line 295, lines 28-84: generator.generate_from_model(args.model)
GenerateFromModel ==
    /\ pc = "constructed"
    /\ IF modelFile[1] # "json"
       THEN Raise /\ UNCHANGED spec
       ELSE /\ \E hashOrder \in HashOrders :
                 spec' = GenerateDocument(modelFile[2], taxonomy, hashOrder)
            /\ pc' = "generated"
            /\ UNCHANGED exitCode
    /\ UNCHANGED <<taxonomyFile, modelFile, taxonomy, outDir, outFile, run, prevFile,
                   entity, schema>>

\* lines 298-299: output_path.parent.mkdir(parents=True, exist_ok=True)
MakeParent ==
    /\ pc = "generated"
    /\ outDir' = TRUE
    /\ pc' = "mkdir"
    /\ UNCHANGED <<taxonomyFile, modelFile, taxonomy, spec, outFile, exitCode, run,
                   prevFile, entity, schema>>

\* line 301: open(output_path, 'w') creates the file or truncates it
OpenOutput ==
    /\ pc = "mkdir"
    /\ outFile' = << <<>> >>
    /\ pc' = "open"
    /\ UNCHANGED <<taxonomyFile, modelFile, taxonomy, spec, outDir, exitCode, run,
                   prevFile, entity, schema>>

\* lines 302-304: yaml.dump(spec, f, sort_keys=False), which writes the mappings
\* in insertion order and the lists in list order; the file is the document.
\* Then the message, and the process ends with 0.
DumpOutput ==
    /\ pc = "open"
    /\ outFile' = <<spec>>
    /\ pc' = "done"
    /\ exitCode' = 0
    /\ UNCHANGED <<taxonomyFile, modelFile, taxonomy, spec, outDir, run, prevFile,
                   entity, schema>>

\* the command line is run again on the same files: a new process
RunAgain ==
    /\ pc \in {"done", "failed"}
    /\ run = "first"
    /\ run' = "second"
    /\ prevFile' = outFile
    /\ pc' = "start"
    /\ taxonomy' = <<>>
    /\ spec' = <<>>
    /\ exitCode' = -1
    /\ UNCHANGED <<taxonomyFile, modelFile, outDir, outFile, entity, schema>>

Next ==
    \/ Construct
    \/ GenerateFromModel
    \/ MakeParent
    \/ OpenOutput
    \/ DumpOutput
    \/ RunAgain

Spec == Init /\ [][Next]_vars

\* --------------------------- _generate_entity_schema called on one entity

InitSchema ==
    /\ entity \in SchemaEntities
    /\ schema = <<>>
    /\ taxonomyFile = <<"noarg">>
    /\ modelFile = <<"missing">>
    /\ Idle

CallGenerateEntitySchema ==
    /\ schema = <<>>
    /\ schema' = GenerateEntitySchema(entity)
    /\ UNCHANGED <<taxonomyFile, modelFile, pc, taxonomy, spec, outDir, outFile,
                   exitCode, run, prevFile, entity>>

NextSchema == CallGenerateEntitySchema

SpecSchema == InitSchema /\ [][NextSchema]_vars

\* ------------------------------------------------- vocabulary of the claims

\* generate_from_model has just returned: spec is the document it returned
Generated == pc = "generated"

ModelEntities == GetOr(modelFile[2], "entities", <<>>)

EntityNameSeq == [i \in 1..Len(ModelEntities) |-> Get(ModelEntities[i], "name")]

LoweredNameSeq == [i \in 1..Len(EntityNameSeq) |-> Lower(EntityNameSeq[i])]

DocSchemas == Get(Get(spec, "components"), "schemas")

DocPaths == Get(spec, "paths")

NumKeys(d) == Cardinality(Range(Keys(d)))

AttrsOf(ent) == GetOr(ent, "attributes", <<>>)

AttrNameSeq(ent) == [i \in 1..Len(AttrsOf(ent)) |-> Get(AttrsOf(ent)[i], "name")]

\* the last index of s that holds x
LastIndex(s, x) == CHOOSE i \in 1..Len(s) : s[i] = x /\ \A j \in (i+1)..Len(s) : s[j] # x

\* s without the repetitions of an element: each element at its first position
RECURSIVE FirstOccurrences(_)
FirstOccurrences(s) ==
    IF s = <<>> THEN <<>>
    ELSE LET front == FirstOccurrences(SubSeq(s, 1, Len(s) - 1))
         IN  IF s[Len(s)] \in Range(front) THEN front ELSE Append(front, s[Len(s)])

\* -------------------------------------------------------------------- C1

\* C1 as stated: for a model with N entities whose names are pairwise distinct,
\* components.schemas has exactly N keys, the entity names, and paths has exactly
\* 2N keys.
C1_DistinctNames ==
    (Generated /\ NoDup(EntityNameSeq)) =>
        /\ NumKeys(DocSchemas) = Len(ModelEntities)
        /\ Range(Keys(DocSchemas)) = Range(EntityNameSeq)
        /\ NumKeys(DocPaths) = 2 * Len(ModelEntities)

\* C1 amended: for a model with N entities whose lowercased names are pairwise
\* distinct, components.schemas has exactly N keys, the entity names, and paths has
\* exactly 2N keys, a collection path and an item path per entity.
C1_DistinctLoweredNames ==
    (Generated /\ NoDup(LoweredNameSeq)) =>
        /\ NumKeys(DocSchemas) = Len(ModelEntities)
        /\ Range(Keys(DocSchemas)) = Range(EntityNameSeq)
        /\ NumKeys(DocPaths) = 2 * Len(ModelEntities)
        /\ \A i \in 1..Len(ModelEntities) :
              /\ Has(DocPaths, <<"/", LoweredNameSeq[i], "s">>)
              /\ Has(DocPaths, <<"/", LoweredNameSeq[i], "s", "/{", LoweredNameSeq[i], "Id}">>)

C1_Witness ==
    /\ Generated
    /\ Len(ModelEntities) = 2
    /\ NoDup(LoweredNameSeq)

\* -------------------------------------------------------------------- C2

CalledSchema == schema # <<>>

MarkedRequired(attr) == Has(attr, "required") /\ Get(attr, "required") = TRUE

\* the names of the attributes marked required: true, in declaration order
RequiredNameSeq(ent) ==
    LET marked == SelectSeq(AttrsOf(ent), MarkedRequired)
    IN  [i \in 1..Len(marked) |-> Get(marked[i], "name")]

\* C2 as stated: for any attribute list, names declared more than once included,
\* the required list holds exactly the names of the attributes marked required:
\* true, each once, in declaration order, and no name of an attribute that is not
\* marked required.
C2_RequiredExactlyOnce ==
    CalledSchema =>
        /\ Get(schema, "required") = RequiredNameSeq(entity)
        /\ NoDup(Get(schema, "required"))
        /\ \A i \in 1..Len(AttrsOf(entity)) :
              ~MarkedRequired(AttrsOf(entity)[i]) =>
                  AttrNameSeq(entity)[i] \notin Range(Get(schema, "required"))

\* C2 amended: the required list is the sequence of the names of the attribute
\* declarations marked required: true, in declaration order, one entry per such
\* declaration; when the attribute names are pairwise distinct it holds each such
\* name once and no name of an attribute that is not marked required.
C2_RequiredPerDeclaration ==
    CalledSchema =>
        /\ Get(schema, "required") = RequiredNameSeq(entity)
        /\ NoDup(AttrNameSeq(entity)) =>
              /\ NoDup(Get(schema, "required"))
              /\ \A i \in 1..Len(AttrsOf(entity)) :
                    ~MarkedRequired(AttrsOf(entity)[i]) =>
                        AttrNameSeq(entity)[i] \notin Range(Get(schema, "required"))

\* a name declared twice, required the first time and not the second, and a
\* required attribute after a non-required one is the other order of the same case
C2_Witness ==
    /\ CalledSchema
    /\ Len(AttrsOf(entity)) = 2
    /\ AttrNameSeq(entity)[1] = AttrNameSeq(entity)[2]
    /\ MarkedRequired(AttrsOf(entity)[1])
    /\ Has(AttrsOf(entity)[2], "required")
    /\ ~MarkedRequired(AttrsOf(entity)[2])
    /\ Get(schema, "required") = <<AttrNameSeq(entity)[1]>>

\* -------------------------------------------------------------------- C7

\* the property generated for the i-th attribute of the entity; a name declared
\* again is overwritten, so this is asked of the last declaration of each name
IsLastDeclaration(i) == LastIndex(AttrNameSeq(entity), AttrNameSeq(entity)[i]) = i

PropertyOf(i) == Get(Get(schema, "properties"), AttrNameSeq(entity)[i])

TableTypes ==
    {"uuid", "email", "phone", "currency", "datetime", "date", "enum", "boolean",
     "integer", "float", "string"}

\* the output type column of the table
TableType(t) ==
    CASE t \in {"uuid", "email", "phone", "datetime", "date", "enum", "string"} -> "string"
      [] t \in {"currency", "float"} -> "number"
      [] t = "boolean" -> "boolean"
      [] t = "integer" -> "integer"

TableHasFormat(t) == t \in {"uuid", "email", "phone", "currency", "datetime", "date", "float"}

\* the format column of the table
TableFormat(t) ==
    CASE t = "uuid" -> "uuid"
      [] t = "email" -> "email"
      [] t = "phone" -> "phone"
      [] t = "currency" -> "decimal"
      [] t = "datetime" -> "date-time"
      [] t = "date" -> "date"
      [] t = "float" -> "float"

\* C7: an attribute whose type is in the table gets the table's type and format,
\* and no format key where the table has none; an attribute whose type is not in
\* the table gets type string, no format key and the example "example".
C7_TypeTable ==
    CalledSchema =>
        \A i \in 1..Len(AttrsOf(entity)) :
            IsLastDeclaration(i) =>
                LET t == Get(AttrsOf(entity)[i], "type")
                    p == PropertyOf(i)
                IN  IF t \in TableTypes
                    THEN /\ Get(p, "type") = TableType(t)
                         /\ Has(p, "format") <=> TableHasFormat(t)
                         /\ TableHasFormat(t) => Get(p, "format") = TableFormat(t)
                    ELSE /\ Get(p, "type") = "string"
                         /\ ~Has(p, "format")
                         /\ Get(p, "example") = <<"str", "example">>

\* one attribute of a type of the table and one of a type that is not in it
C7_Witness ==
    /\ CalledSchema
    /\ Len(AttrsOf(entity)) = 2
    /\ NoDup(AttrNameSeq(entity))
    /\ Get(AttrsOf(entity)[1], "type") = "string"
    /\ Get(AttrsOf(entity)[2], "type") = "UUID"
    /\ Get(PropertyOf(2), "type") = "string"

\* -------------------------------------------------------------------- C8

\* C8 as stated: the property carries maxLength equal to max_length whenever the
\* attribute has the field max_length, whatever integer it holds, 0 included, and
\* no maxLength key when the attribute has no such field.
C8_MaxLengthWhenPresent ==
    CalledSchema =>
        \A i \in 1..Len(AttrsOf(entity)) :
            IsLastDeclaration(i) =>
                LET a == AttrsOf(entity)[i]
                    p == PropertyOf(i)
                IN  IF Has(a, "max_length")
                    THEN Has(p, "maxLength") /\ Get(p, "maxLength") = Get(a, "max_length")
                    ELSE ~Has(p, "maxLength")

\* -------------------------------------------------------------------- C3

\* C3 as stated: a second run on the same model file and taxonomy file leaves the
\* same output as the first, the order of every list included.
C3_SecondRunIdentical ==
    (run = "second" /\ pc = "done") => outFile = prevFile

\* -------------------------------------------------------------------- C4

InputFails == taxonomyFile[1] = "malformed" \/ modelFile[1] # "json"

\* C4: when reading or parsing the taxonomy file or the model file fails, the
\* process ends with a non-zero exit and neither the output file nor its parent
\* directory is ever created; and the output is touched only once the document
\* has been computed.
C4_AllOrNothing ==
    /\ InputFails =>
          /\ pc \in {"start", "constructed", "failed"}
          /\ outDir = FALSE
          /\ outFile = <<>>
    /\ pc = "failed" => exitCode = 1 /\ InputFails
    /\ (run = "first" /\ (outDir \/ outFile # <<>>)) =>
          /\ pc \in {"mkdir", "open", "done"}
          /\ spec # <<>>
    /\ (run = "second" /\ pc \in {"start", "constructed", "generated", "mkdir", "failed"}) =>
          outFile = prevFile

\* a valid taxonomy file and a missing model file: the run has failed
C4_Witness ==
    /\ pc = "failed"
    /\ taxonomyFile[1] = "json"
    /\ modelFile[1] = "missing"
    /\ exitCode = 1

\* -------------------------------------------------------------------- C5

DocCompliance == Get(Get(spec, "x-taxonomy"), "compliance")

\* the union of the compliance lists of the entities that have one
ComplianceUnion ==
    UNION { Range(Get(Get(ModelEntities[i], "taxonomy_classification"), "compliance")) :
              i \in { j \in 1..Len(ModelEntities) :
                        /\ Has(ModelEntities[j], "taxonomy_classification")
                        /\ Has(Get(ModelEntities[j], "taxonomy_classification"),
                               "compliance") } }

\* C5: with a non-empty taxonomy mapping, the compliance list of the root
\* x-taxonomy object has no duplicates and its elements are the union of the
\* entities' taxonomy_classification.compliance lists.
C5_ComplianceUnion ==
    (Generated /\ taxonomy # <<>>) =>
        /\ NoDup(DocCompliance)
        /\ Range(DocCompliance) = ComplianceUnion

\* the lists ["GDPR"] and ["HIPAA", "GDPR"] of two entities
C5_Witness ==
    /\ Generated
    /\ taxonomy # <<>>
    /\ Len(ModelEntities) = 2
    /\ \A i \in 1..2 : Has(ModelEntities[i], "taxonomy_classification")
    /\ Get(Get(ModelEntities[1], "taxonomy_classification"), "compliance") = <<"GDPR">>
    /\ Get(Get(ModelEntities[2], "taxonomy_classification"), "compliance")
           = <<"HIPAA", "GDPR">>
    /\ Len(DocCompliance) = 2

\* -------------------------------------------------------------------- C6

\* C6: the document has x-taxonomy at its root exactly when the taxonomy mapping is
\* non-empty; without --taxonomy, or with a path to no file, construction does not
\* fail, the mapping stays empty and the root has no x-taxonomy.
C6_TaxonomyKey ==
    /\ Generated =>
          /\ Has(spec, "x-taxonomy") <=> taxonomy # <<>>
          /\ taxonomyFile[1] = "json" => taxonomy = taxonomyFile[2]
    /\ taxonomyFile[1] \in {"noarg", "missing"} =>
          /\ taxonomy = <<>>
          /\ pc = "failed" => modelFile[1] # "json"
          /\ Generated => ~Has(spec, "x-taxonomy")

\* no taxonomy file, and a model whose entities declare compliance
C6_Witness ==
    /\ Generated
    /\ taxonomyFile[1] = "missing"
    /\ ComplianceUnion = {"GDPR", "HIPAA"}
    /\ ~Has(spec, "x-taxonomy")

\* -------------------------------------------------------------------- C9

\* the entity that comes last among those that derive the key
LastNamed(name) == ModelEntities[LastIndex(EntityNameSeq, name)]

LastLowered(lowered) == ModelEntities[LastIndex(LoweredNameSeq, lowered)]

\* C9: generation of a parsed model completes, and under every key of
\* components.schemas and of paths stands the value generated from the last entity
\* in declaration order that derives the key; so where a key is derived by one
\* entity only, that entity's value stands.
C9_LastWriteWins ==
    /\ pc = "failed" => InputFails
    /\ Generated =>
          /\ \A i \in 1..Len(ModelEntities) :
                /\ Has(DocSchemas, EntityNameSeq[i])
                /\ Get(DocSchemas, EntityNameSeq[i])
                       = GenerateEntitySchema(LastNamed(EntityNameSeq[i]))
          /\ \A i \in 1..Len(ModelEntities) :
                LET l == LoweredNameSeq[i]
                    n == Get(LastLowered(l), "name")
                    collection == <<"/", l, "s">>
                    item == <<"/", l, "s", "/{", l, "Id}">>
                IN  /\ Has(DocPaths, collection)
                    /\ Has(DocPaths, item)
                    /\ Get(Get(Get(DocPaths, collection), "get"), "operationId")
                           = <<"list", n, "s">>
                    /\ Get(Get(Get(DocPaths, collection), "post"), "operationId")
                           = <<"create", n>>
                    /\ Get(Get(Get(DocPaths, item), "get"), "operationId")
                           = <<"get", n>>

\* two entities of one name whose schemas differ: the second one's stands
C9_Witness ==
    /\ Generated
    /\ Len(ModelEntities) = 2
    /\ EntityNameSeq[1] = EntityNameSeq[2]
    /\ GenerateEntitySchema(ModelEntities[1]) # GenerateEntitySchema(ModelEntities[2])
    /\ Get(DocSchemas, EntityNameSeq[1]) = GenerateEntitySchema(ModelEntities[2])

\* ------------------------------------------------------------------- C10

\* C10 as stated: the keys of an entity's properties mapping are the sequence of
\* its attributes' names in declaration order, one per declared attribute, and the
\* keys of components.schemas are the sequence of the entities' names.
C10_KeysAreDeclarations ==
    Generated =>
        /\ Keys(DocSchemas) = EntityNameSeq
        /\ \A i \in 1..Len(ModelEntities) :
              Keys(Get(Get(DocSchemas, EntityNameSeq[i]), "properties"))
                  = AttrNameSeq(LastNamed(EntityNameSeq[i]))

\* C10 amended: the keys of an entity's properties mapping are its attributes'
\* names in declaration order, each name at the position of its first declaration
\* and once (one property per declared attribute when the names are pairwise
\* distinct), and likewise the keys of components.schemas are the entities' names,
\* each at the position of its first declaration.
C10_KeysInFirstDeclarationOrder ==
    Generated =>
        /\ Keys(DocSchemas) = FirstOccurrences(EntityNameSeq)
        /\ \A i \in 1..Len(ModelEntities) :
              Keys(Get(Get(DocSchemas, EntityNameSeq[i]), "properties"))
                  = FirstOccurrences(AttrNameSeq(LastNamed(EntityNameSeq[i])))

\* an entity with the attributes email, id in that order, after another entity
C10_Witness ==
    /\ Generated
    /\ EntityNameSeq = <<"Order", "User">>
    /\ AttrNameSeq(ModelEntities[2]) = <<"email", "id">>
    /\ Keys(Get(Get(DocSchemas, "User"), "properties")) = <<"email", "id">>
    /\ Keys(DocSchemas) = <<"Order", "User">>

====
